---- MODULE Spec2Model ----
(***************************************************************************)
(* A model of the local RAG application: the document splitter, the        *)
(* persisted Chroma vector store, the multi-query retrieval chain and the  *)
(* Streamlit front end that drives them.                                   *)
(*                                                                         *)
(* Four specifications share the module's variables:                       *)
(*   SpecSplit  the splitter's merge loop on a text without separators     *)
(*   SpecQuery  one RAGChain.run: expansion, per-query search, union,      *)
(*              answer generation                                          *)
(*   SpecStore  callers of VectorStore.get_store and of search, running    *)
(*              concurrently against one persist directory                 *)
(*   Spec       the Streamlit script of frontend/app.py, one script run    *)
(*              per action                                                 *)
(* A specification parks the variables of the others at fixed values.      *)
(***************************************************************************)
EXTENDS Integers, Sequences, FiniteSets, TLC

VARIABLES
    \* --- splitter (RecursiveCharacterTextSplitter behind DocumentSplitter)
    sp_len,        \* length of the text being split, in characters
    sp_idx,        \* number of splits already taken into current_doc
    sp_first,      \* index of the first split still in current_doc
    sp_total,      \* `total`: length of current_doc
    sp_chunks,     \* `docs`: the chunks emitted so far, as [start, end) offsets
    sp_pc,         \* "loop" | "pop" | "done"
    \* --- the persisted Chroma collection (PERSIST_DIRECTORY on disk)
    persist_directory,  \* [exists, items, persisted]
    \* --- one RAGChain.run (MultiQueryRetriever, prompt, llm)
    q_pc,          \* "idle" | "expand" | "search" | "answer" | "done"
    q_question,    \* the question the chain was invoked with
    q_expansion,   \* what the llm returned for the query prompt
    q_queries,     \* the queries the retriever searches with
    q_results,     \* the documents found, one list per query searched
    q_fused,       \* unique_union of the documents: the prompt's context
    q_outcome,     \* "none" | "answer" | the kind of the exception raised
    \* --- callers of VectorStore.get_store, one entry per caller
    gs_pc,         \* "idle" | "check" | "create" | "embed" | "persist"
                   \* | "opened" | "created" | "raised"
    gs_documents,  \* the `documents` argument of the call
    gs_embedded,   \* how many documents the call has embedded
    s_found,       \* the files whose chunks the last search on an open
                   \* store returned, or that it failed
    overlapped,    \* history: a caller found the directory absent while
                   \* another caller was creating the store
    \* --- the Streamlit session (st.session_state and the widgets)
    ui_pc,         \* "idle" | "rerun": st.rerun() has asked for another run
    ui_event,      \* what triggered the last script run
    messages,      \* st.session_state.messages
    chain,         \* st.session_state.chain: None or the cached RAGChain
    uploaded_files,  \* st.session_state.uploaded_files, by file name
    pdf_uploader   \* the files held by the file_uploader widget

split_vars == <<sp_len, sp_idx, sp_first, sp_total, sp_chunks, sp_pc>>

query_vars == <<q_pc, q_question, q_expansion, q_queries, q_results, q_fused,
                q_outcome>>

store_vars == <<gs_pc, gs_documents, gs_embedded, s_found, overlapped>>

ui_vars == <<ui_pc, ui_event, messages, chain, uploaded_files, pdf_uploader>>

vars == <<split_vars, persist_directory, query_vars, store_vars, ui_vars>>

-----------------------------------------------------------------------------
(* Program constants                                                       *)

CHUNK_SIZE == 1200

CHUNK_OVERLAP == 300

-----------------------------------------------------------------------------
(* Bounds                                                                  *)

\* Texts of up to MaxDocUnits * CHUNK_OVERLAP (+1) characters are split.
MaxDocUnits == 10

\* The uploaded PDF files are 1..NFiles.
NFiles == 2

\* split_documents yields NChunks chunks for a file.
NChunks == 3

\* The questions asked are 1..NQuestions.
NQuestions == 1

\* A session's chat history is followed up to MaxMessages messages.
MaxMessages == 4

\* The llm's answer to the query prompt has at most MaxLines lines.
MaxLines == 2

\* The retriever of as_retriever() returns the TopK nearest documents.
TopK == 2

-----------------------------------------------------------------------------
(* Data: files, chunks, the persisted collection                           *)

Files == 1..NFiles

\* The texts the model tells apart: questions, the alternative phrasings the
\* llm writes, and the empty line.
Questions == {[kind |-> "question", n |-> i] : i \in 1..NQuestions}

Alternative == [kind |-> "alternative", n |-> 0]

EmptyLine == [kind |-> "empty", n |-> 0]

\* The chunks split_documents returns for the documents of file f.
ChunksOf(f) == [i \in 1..NChunks |-> [doc |-> f, seq |-> i]]

\* PERSIST_DIRECTORY does not exist.
Absent == [exists |-> FALSE, items |-> << >>, persisted |-> FALSE]

\* os.path.exists(PERSIST_DIRECTORY)
Exists(dir) == dir.exists

\* Chroma(..., persist_directory=PERSIST_DIRECTORY): the client creates the
\* directory, with an empty collection, when it is not there, and opens it
\* when it is.
NewClient(dir) == IF Exists(dir) THEN dir
                  ELSE [exists |-> TRUE, items |-> << >>, persisted |-> FALSE]

\* The collection takes the documents and their embeddings.
AddDocumentsMutTwice(dir, documents) ==
    [dir EXCEPT !.items = @ \o documents \o documents]

AddDocuments(dir, documents) == [dir EXCEPT !.items = @ \o documents]

\* store.persist()
Persist(dir) == [dir EXCEPT !.persisted = TRUE]

\* A directory that one get_store(documents) call created and persisted.
CreatedFrom(documents) == Persist(AddDocuments(NewClient(Absent), documents))

\* The sequences of k distinct indices of 1..n.
InjSeqs(n, k) ==
    {p \in [1..k -> 1..n] : \A i, j \in 1..k : i # j => p[i] # p[j]}

Min(a, b) == IF a < b THEN a ELSE b

\* The outcome of a call to a service: what it returned, or that it raised.
Returned(value) == [ok |-> TRUE, value |-> value]

Failed == [ok |-> FALSE, value |-> << >>]

\* What a similarity search on the collection can return: the TopK nearest
\* documents (all of them when there are fewer), nearest first.  Which ones
\* are nearest is decided by the embeddings: any ranking.
Rankings(items) ==
    {[i \in 1..Min(TopK, Len(items)) |-> items[p[i]]] :
        p \in InjSeqs(Len(items), Min(TopK, Len(items)))}

SearchOutcomes(items) == {Returned(r) : r \in Rankings(items)} \cup {Failed}

\* The files the documents of a search result are chunks of.
FilesOf(found) ==
    IF found.ok
    THEN Returned({found.value[i].doc : i \in 1..Len(found.value)})
    ELSE [ok |-> FALSE, value |-> {}]

-----------------------------------------------------------------------------
(* The values a specification gives the variables it does not use          *)

ParkedSplitVars ==
    /\ sp_len = 0
    /\ sp_idx = 0
    /\ sp_first = 1
    /\ sp_total = 0
    /\ sp_chunks = << >>
    /\ sp_pc = "done"

ParkedStore == persist_directory = Absent

ParkedStoreVars ==
    /\ gs_pc = << >>
    /\ gs_documents = << >>
    /\ gs_embedded = << >>
    /\ s_found = FilesOf(Failed)
    /\ overlapped = FALSE

None == "None"

ParkedUiVars ==
    /\ ui_pc = "idle"
    /\ ui_event = "start"
    /\ messages = << >>
    /\ chain = None
    /\ uploaded_files = << >>
    /\ pdf_uploader = << >>

ParkedQueryVars ==
    /\ q_pc = "idle"
    /\ q_question = EmptyLine
    /\ q_expansion = Failed
    /\ q_queries = << >>
    /\ q_results = << >>
    /\ q_fused = << >>
    /\ q_outcome = "none"

-----------------------------------------------------------------------------
(* The chain: MultiQueryRetriever.from_llm(as_retriever(), llm, prompt)    *)
(* feeding prompt | llm | StrOutputParser                                  *)

\* A line of the llm's answer to the query prompt: empty, an alternative
\* phrasing of the question, or the question itself.
Lines(question) == {EmptyLine, Alternative, question}

RECURSIVE SeqsUpTo(_, _)
SeqsUpTo(S, n) ==
    IF n = 0 THEN {<< >>}
    ELSE LET shorter == SeqsUpTo(S, n - 1)
         IN  shorter \cup {Append(s, x) : s \in shorter, x \in S}

\* What the llm can return for the query prompt: its text, as lines, or a
\* failure of the call.
ExpansionOutcomes(question) ==
    {Returned(text) : text \in SeqsUpTo(Lines(question), MaxLines)}
    \cup {Failed}

\* The retriever's output parser: the lines of the text, empty ones dropped.
ParseLines(lines) == SelectSeq(lines, LAMBDA l : l # EmptyLine)

\* from_llm is called without include_original: it keeps its default.
IncludeOriginal == FALSE

\* generate_queries, then the original question when include_original.
Queries(question, lines) ==
    IF IncludeOriginal THEN Append(ParseLines(lines), question)
    ELSE ParseLines(lines)

RECURSIVE Flatten(_)
Flatten(lists) ==
    IF lists = << >> THEN << >>
    ELSE Head(lists) \o Flatten(Tail(lists))

\* retrieve_documents: for query in queries: documents.extend(docs)
RetrieveDocuments(results) == Flatten(results)

\* unique_union: [doc for i, doc in enumerate(documents)
\*                if doc not in documents[:i]]
UniqueUnionMutKeepAll(documents) == documents

UniqueUnion(documents) ==
    LET keep(i) == \A j \in 1..(i - 1) : documents[j] # documents[i]
        RECURSIVE from(_)
        from(i) == IF i > Len(documents) THEN << >>
                   ELSE (IF keep(i) THEN <<documents[i]>> ELSE << >>)
                        \o from(i + 1)
    IN  from(1)

\* RAGChain.run(question): self.chain.invoke(question)
QInvoke(question) ==
    /\ q_pc \in {"idle", "done"}
    /\ q_pc' = "expand"
    /\ q_question' = question
    /\ q_expansion' = Failed
    /\ q_queries' = << >>
    /\ q_results' = << >>
    /\ q_fused' = << >>
    /\ q_outcome' = "none"
    /\ UNCHANGED <<split_vars, persist_directory, store_vars, ui_vars>>

\* generate_queries: one llm call; its exception is not caught.
QGenerate(out) ==
    /\ q_pc = "expand"
    /\ q_expansion' = out
    /\ IF ~out.ok
       THEN /\ q_pc' = "done"
            /\ q_outcome' = "expansion_error"
            /\ UNCHANGED q_queries
       ELSE /\ q_pc' = "search"
            /\ q_queries' = Queries(q_question, out.value)
            /\ UNCHANGED q_outcome
    /\ UNCHANGED <<q_question, q_results, q_fused, split_vars,
                   persist_directory, store_vars, ui_vars>>

\* retrieve_documents, one query: docs = self.retriever.invoke(query); its
\* exception is not caught.
QSearch(found) ==
    /\ q_pc = "search"
    /\ Len(q_results) < Len(q_queries)
    /\ IF ~found.ok
       THEN /\ q_pc' = "done"
            /\ q_outcome' = "retrieval_error"
            /\ UNCHANGED q_results
       ELSE /\ q_results' = Append(q_results, found.value)
            /\ UNCHANGED <<q_pc, q_outcome>>
    /\ UNCHANGED <<q_question, q_expansion, q_queries, q_fused, split_vars,
                   persist_directory, store_vars, ui_vars>>

\* All queries searched: unique_union(documents) becomes the context.
QUnion ==
    /\ q_pc = "search"
    /\ Len(q_results) = Len(q_queries)
    /\ q_fused' = UniqueUnion(RetrieveDocuments(q_results))
    /\ q_pc' = "answer"
    /\ UNCHANGED <<q_question, q_expansion, q_queries, q_results, q_outcome,
                   split_vars, persist_directory, store_vars, ui_vars>>

\* prompt | llm | StrOutputParser: one llm call; its exception is not caught.
\* The retriever has returned: its queries and documents are gone.
QAnswer(ok) ==
    /\ q_pc = "answer"
    /\ q_pc' = "done"
    /\ q_outcome' = IF ok THEN "answer" ELSE "generation_error"
    /\ q_queries' = << >>
    /\ q_results' = << >>
    /\ UNCHANGED <<q_question, q_expansion, q_fused, split_vars,
                   persist_directory, store_vars, ui_vars>>

InitQuery ==
    /\ ParkedSplitVars
    /\ ParkedStoreVars
    /\ ParkedUiVars
    /\ persist_directory = CreatedFrom(ChunksOf(1))
    /\ ParkedQueryVars

NextQuery ==
    \/ \E question \in Questions : QInvoke(question)
    \/ \E out \in ExpansionOutcomes(q_question) : QGenerate(out)
    \/ \E found \in SearchOutcomes(persist_directory.items) : QSearch(found)
    \/ QUnion
    \/ \E ok \in BOOLEAN : QAnswer(ok)

SpecQuery == InitQuery /\ [][NextQuery]_vars

-----------------------------------------------------------------------------
(* Claims about the chain                                                  *)

\* The queries have been generated (or their generation has failed), and
\* the retriever has not returned yet.
Expanded ==
    q_pc \in {"search", "answer"}
    \/ (q_pc = "done" /\ q_outcome \in {"expansion_error", "retrieval_error"})

\* The union of the documents found has just been computed.
Fused == q_pc = "answer"

\* C4: the list of queries searched always starts with the original
\* question, and it is exactly the original question when the llm returns
\* no usable line or its call fails, in which case retrieval goes on as a
\* search on the original question alone instead of failing the run.
C4_OriginalQuestionFirst ==
    Expanded =>
        /\ q_queries # << >>
        /\ q_queries[1] = q_question
        /\ (~q_expansion.ok \/ ParseLines(q_expansion.value) = << >>)
              => (q_queries = <<q_question>> /\ q_outcome # "expansion_error")

\* The places (query, rank) at which document d was found.
Places(d) ==
    {pl \in (1..Len(q_results)) \X (1..TopK) :
        pl[2] <= Len(q_results[pl[1]]) /\ q_results[pl[1]][pl[2]] = d}

Before(a, b) == a[1] < b[1] \/ (a[1] = b[1] /\ a[2] < b[2])

\* The first place at which document d was found: query first, rank second.
FirstPlace(d) == CHOOSE a \in Places(d) : \A b \in Places(d) : a = b \/ Before(a, b)

AllFound == UNION {{q_results[i][j] : j \in 1..Len(q_results[i])} : i \in 1..Len(q_results)}

\* C5: the context is the union of the documents found for the queries,
\* each document once, ordered by the query that found it first and then by
\* its rank in that query's result.
C5_FusionOrder ==
    Fused =>
        /\ {q_fused[k] : k \in 1..Len(q_fused)} = AllFound
        /\ \A k, l \in 1..Len(q_fused) : k # l => q_fused[k] # q_fused[l]
        /\ \A k, l \in 1..Len(q_fused) :
              k < l => Before(FirstPlace(q_fused[k]), FirstPlace(q_fused[l]))

\* Two queries whose results share a document and differ in another.
C5_Witness ==
    /\ q_pc = "answer"
    /\ Len(q_results) = 2
    /\ Len(q_fused) = 3
    /\ q_results[1][1] = q_results[2][2]

\* C6: a retrieval error ends the run only when every search failed; when a
\* search succeeded and another failed, the run goes on with the documents
\* of the successful ones.
C6_PartialFailureTolerated ==
    (q_pc = "done" /\ q_outcome = "retrieval_error") => q_results = << >>

-----------------------------------------------------------------------------
(* VectorStore.get_store, step by step, for callers that run concurrently  *)
(* against the one PERSIST_DIRECTORY (Streamlit runs each session's script *)
(* in a thread of its own), and searches on the store a call returned      *)

Callers == {"caller1", "caller2"}

\* The `documents` a caller passes: the chunks of a file, or none.
DocumentArgs == {ChunksOf(f) : f \in Files} \cup {<< >>}

\* Between finding the directory absent and store.persist().
Creating == {"create", "embed", "persist"}

\* The call has returned a store.
HoldsStore == {"opened", "created"}

\* return Chroma(embedding_function, collection_name, persist_directory):
\* the existing store is opened; `documents` is not looked at.
OpenExistingMutMerge(dir, documents) == AddDocuments(dir, documents)

OpenExisting(dir, documents) == dir

\* vector_store.get_store(documents=...) is called.
GetStore(c, documents) ==
    /\ gs_pc[c] \notin Creating \cup {"check"}
    /\ gs_pc' = [gs_pc EXCEPT ![c] = "check"]
    /\ gs_documents' = [gs_documents EXCEPT ![c] = documents]
    /\ gs_embedded' = [gs_embedded EXCEPT ![c] = 0]
    /\ UNCHANGED <<persist_directory, s_found, overlapped, split_vars,
                   query_vars, ui_vars>>

\* if os.path.exists(PERSIST_DIRECTORY): return Chroma(...)
\* if documents: ... else: raise ValueError
GsCheck(c) ==
    /\ gs_pc[c] = "check"
    /\ IF Exists(persist_directory)
       THEN /\ gs_pc' = [gs_pc EXCEPT ![c] = "opened"]
            /\ persist_directory' =
                   OpenExisting(persist_directory, gs_documents[c])
            /\ UNCHANGED overlapped
       ELSE /\ gs_pc' = [gs_pc EXCEPT ![c] =
                   IF gs_documents[c] # << >> THEN "create" ELSE "raised"]
            /\ overlapped' =
                   (overlapped \/ (gs_documents[c] # << >> /\
                        \E d \in Callers \ {c} : gs_pc[d] \in Creating))
            /\ UNCHANGED persist_directory
    /\ UNCHANGED <<gs_documents, gs_embedded, s_found, split_vars,
                   query_vars, ui_vars>>

\* Chroma.from_documents, first the client: the directory is there from now.
GsNewClient(c) ==
    /\ gs_pc[c] = "create"
    /\ persist_directory' = NewClient(persist_directory)
    /\ gs_pc' = [gs_pc EXCEPT ![c] = "embed"]
    /\ UNCHANGED <<gs_documents, gs_embedded, s_found, overlapped, split_vars,
                   query_vars, ui_vars>>

\* Chroma.from_documents, the embedding of one more document; the call
\* raises when the embedding service fails.
GsEmbed(c, ok) ==
    /\ gs_pc[c] = "embed"
    /\ gs_embedded[c] < Len(gs_documents[c])
    /\ IF ok
       THEN /\ gs_embedded' = [gs_embedded EXCEPT ![c] = @ + 1]
            /\ UNCHANGED gs_pc
       ELSE /\ gs_pc' = [gs_pc EXCEPT ![c] = "raised"]
            /\ UNCHANGED gs_embedded
    /\ UNCHANGED <<persist_directory, gs_documents, s_found, overlapped,
                   split_vars, query_vars, ui_vars>>

\* Chroma.from_documents, the end: the collection takes the documents.
GsAdd(c) ==
    /\ gs_pc[c] = "embed"
    /\ gs_embedded[c] = Len(gs_documents[c])
    /\ persist_directory' = AddDocuments(persist_directory, gs_documents[c])
    /\ gs_pc' = [gs_pc EXCEPT ![c] = "persist"]
    /\ UNCHANGED <<gs_documents, gs_embedded, s_found, overlapped, split_vars,
                   query_vars, ui_vars>>

\* store.persist(); return store
GsPersist(c) ==
    /\ gs_pc[c] = "persist"
    /\ persist_directory' = Persist(persist_directory)
    /\ gs_pc' = [gs_pc EXCEPT ![c] = "created"]
    /\ UNCHANGED <<gs_documents, gs_embedded, s_found, overlapped, split_vars,
                   query_vars, ui_vars>>

\* A similarity search on the store a call returned.
Search(c, found) ==
    /\ gs_pc[c] \in HoldsStore
    /\ s_found' = found
    /\ UNCHANGED <<persist_directory, gs_pc, gs_documents, gs_embedded,
                   overlapped, split_vars, query_vars, ui_vars>>

InitStore ==
    /\ ParkedSplitVars
    /\ ParkedQueryVars
    /\ ParkedUiVars
    /\ persist_directory = Absent
    /\ gs_pc = [c \in Callers |-> "idle"]
    /\ gs_documents = [c \in Callers |-> << >>]
    /\ gs_embedded = [c \in Callers |-> 0]
    /\ s_found = FilesOf(Failed)
    /\ overlapped = FALSE

NextStore ==
    \E c \in Callers :
        \/ \E documents \in DocumentArgs : GetStore(c, documents)
        \/ GsCheck(c)
        \/ GsNewClient(c)
        \/ \E ok \in BOOLEAN : GsEmbed(c, ok)
        \/ GsAdd(c)
        \/ GsPersist(c)
        \/ \E found \in {FilesOf(r) :
                            r \in SearchOutcomes(persist_directory.items)} :
               Search(c, found)

SpecStore == InitStore /\ [][NextStore]_vars

-----------------------------------------------------------------------------
(* Claims about get_store                                                  *)

\* C1: a get_store call that finds the persist directory existing returns
\* the existing store: it leaves the stored collection as it is, whatever
\* documents it was given, and embeds nothing; so a search on the store it
\* returned finds only documents that were stored before the call.
C1_OpenIsIdempotent ==
    /\ [][\A c \in Callers :
            (gs_pc[c] = "check" /\ gs_pc'[c] # "check" /\ Exists(persist_directory))
                => /\ gs_pc'[c] = "opened"
                   /\ persist_directory' = persist_directory]_vars
    /\ [](\A c \in Callers : gs_pc[c] = "opened" => gs_embedded[c] = 0)
    /\ [][s_found' # s_found =>
            s_found'.value \subseteq
                {persist_directory.items[i].doc :
                    i \in 1..Len(persist_directory.items)}]_vars

\* A caller was given the chunks of file 2, got the store created from file
\* 1, and a search on it returned documents.
C1_Witness ==
    /\ persist_directory = CreatedFrom(ChunksOf(1))
    /\ gs_pc["caller2"] = "opened"
    /\ gs_documents["caller2"] = ChunksOf(2)
    /\ s_found = Returned({1})

\* The collection holds a document twice, or documents of two calls.
Corrupt(dir) ==
    \/ \E i, j \in 1..Len(dir.items) : i # j /\ dir.items[i] = dir.items[j]
    \/ \E i, j \in 1..Len(dir.items) : dir.items[i].doc # dir.items[j].doc

\* C10: the persisted collection holds duplicated or mixed contents of two
\* get_store calls only when a caller found the directory absent while
\* another caller was creating the store (a state that is reachable: both
\* see "absent" and both create); a search never changes the collection.
C10_CorruptOnlyByRace ==
    /\ [](Corrupt(persist_directory) => overlapped)
    /\ [][s_found' # s_found => persist_directory' = persist_directory]_vars

C10_Witness == Corrupt(persist_directory) /\ persist_directory.persisted

-----------------------------------------------------------------------------
(* frontend/app.py: one action is one run of the script, main(), from the  *)
(* event that triggered it to its end or to its st.rerun()                 *)

RAGChain == "RAGChain"

\* st.chat_input returned nothing in this run.
NoPrompt == EmptyLine

UserMessage(prompt) == [role |-> "user", content |-> prompt]

AssistantMessage(kind) ==
    [role |-> "assistant", content |-> [kind |-> kind, n |-> 0]]

InSeq(x, seq) == \E i \in 1..Len(seq) : seq[i] = x

\* handle_file_upload: every file of the widget whose name is not yet in
\* st.session_state.uploaded_files is saved and appended to it.
RECURSIVE handle_file_upload(_, _)
handle_file_upload(uploaded, widget) ==
    IF widget = << >> THEN uploaded
    ELSE handle_file_upload(
             IF InSeq(Head(widget), uploaded) THEN uploaded
             ELSE Append(uploaded, Head(widget)),
             Tail(widget))

\* shutil.rmtree(PERSIST_DIRECTORY)
RmtreeMutKeep(dir) == dir

Rmtree(dir) == Absent

\* How one initialize_rag_components call can go: load_pdf returns None,
\* split_documents returns None, VectorStore() raises (ollama.pull), the
\* embedding of the at-th chunk raises inside get_store, or nothing fails.
InitOutcomes ==
    {[stage |-> st, at |-> 0] : st \in {"load", "split", "pull", "none"}}
    \cup {[stage |-> "embed", at |-> k] : k \in 1..NChunks}

\* VectorStore.get_store(documents) run to its end, alone: the steps of
\* GsCheck, GsNewClient, GsEmbed, GsAdd and GsPersist in sequence, the
\* embedding of the failAt-th document raising (none when failAt is 0).
get_store(dir, documents, failAt) ==
    IF Exists(dir)
    THEN [dir |-> OpenExisting(dir, documents), raised |-> FALSE]
    ELSE IF documents = << >>
    THEN [dir |-> dir, raised |-> TRUE]
    ELSE IF failAt \in 1..Len(documents)
    THEN [dir |-> NewClient(dir), raised |-> TRUE]
    ELSE [dir |-> Persist(AddDocuments(NewClient(dir), documents)),
          raised |-> FALSE]

\* initialize_rag_components(pdf_path, model_name): the chain, or None after
\* a failure (st.error), and the persist directory as the call leaves it.
initialize_rag_components(dir, file, outcome) ==
    IF outcome.stage \in {"load", "split", "pull"}
    THEN [dir |-> dir, chain |-> None]
    ELSE LET r == get_store(dir, ChunksOf(file), outcome.at)
         IN  [dir |-> r.dir, chain |-> IF r.raised THEN None ELSE RAGChain]

\* main: for file in st.session_state.uploaded_files:
\*           chain = initialize_rag_components(...); if chain: ...; break
\* Every way the loop can end: the chain of the first file whose call
\* returned one (or None), and the persist directory as the calls left it.
RECURSIVE ProcessUploads(_, _)
ProcessUploads(dir, files) ==
    IF files = << >> THEN {[dir |-> dir, chain |-> None]}
    ELSE UNION {IF r.chain # None THEN {r}
                ELSE ProcessUploads(r.dir, Tail(files)) :
                r \in {initialize_rag_components(dir, Head(files), outcome) :
                          outcome \in InitOutcomes}}

\* RAGChain.run(question) run to its end, as far as its caller sees it:
\* the steps of QGenerate, QSearch, QUnion and QAnswer in sequence, the
\* failing-th search raising (none when failing is 0); "answer" or the kind
\* of the exception raised.  The text of the answer is not modelled.
ChainRun(question, expansion, failing, generated) ==
    IF ~expansion.ok THEN "expansion_error"
    ELSE IF failing \in 1..Len(Queries(question, expansion.value))
    THEN "retrieval_error"
    ELSE IF generated THEN "answer"
    ELSE "generation_error"

\* Every way RAGChain.run(question) can end.
ChainOutcomes(question) ==
    {ChainRun(question, expansion, failing, generated) :
        expansion \in ExpansionOutcomes(question),
        failing \in 0..MaxLines,
        generated \in BOOLEAN}

\* The except branch of handle_user_input: the error message is appended.
ErrorTurnMutDropHistory(history, prompt) == <<AssistantMessage("error")>>

ErrorTurn(history, prompt) ==
    Append(Append(history, UserMessage(prompt)), AssistantMessage("error"))

\* handle_user_input: st.session_state.messages after the turn.
handle_user_input(history, prompt, cached, outcome) ==
    IF prompt = NoPrompt THEN history
    ELSE IF cached = None THEN Append(history, UserMessage(prompt))
    ELSE IF outcome = "answer"
    THEN Append(Append(history, UserMessage(prompt)), AssistantMessage("answer"))
    ELSE ErrorTurn(history, prompt)

\* The chat interface at the end of main, with the chain of this run.
ChatInterface(prompt) ==
    \E outcome \in (IF prompt # NoPrompt /\ chain # None
                    THEN ChainOutcomes(prompt)
                    ELSE {"none"}) :
        messages' = handle_user_input(messages, prompt, chain, outcome)

\* main(): clear_knowledge_base, handle_file_upload, the processing of the
\* uploaded files when no chain is cached, the chat interface.
Main(event, widget, clear, prompt) ==
    /\ ui_event' = event
    /\ pdf_uploader' = widget
    /\ IF clear /\ Exists(persist_directory)
       THEN \* clear_knowledge_base, ended by st.rerun()
            /\ persist_directory' = Rmtree(persist_directory)
            /\ chain' = None
            /\ messages' = << >>
            /\ uploaded_files' = << >>
            /\ ui_pc' = "rerun"
       ELSE LET uploaded == handle_file_upload(uploaded_files, widget)
            IN  /\ uploaded_files' = uploaded
                /\ IF uploaded # << >> /\ chain = None
                   THEN \E r \in ProcessUploads(persist_directory, uploaded) :
                          /\ persist_directory' = r.dir
                          /\ chain' = r.chain
                          /\ IF r.chain # None
                             THEN \* st.session_state.chain = chain; st.rerun()
                                  /\ ui_pc' = "rerun"
                                  /\ UNCHANGED messages
                             ELSE /\ ui_pc' = "idle"
                                  /\ ChatInterface(prompt)
                   ELSE /\ ui_pc' = "idle"
                        /\ ChatInterface(prompt)
                        /\ UNCHANGED <<persist_directory, chain>>
    /\ UNCHANGED <<split_vars, query_vars, store_vars>>

\* The user adds a PDF file to the file_uploader widget.
AddFile(file) ==
    /\ ui_pc = "idle"
    /\ ~InSeq(file, pdf_uploader)
    /\ Main("upload", Append(pdf_uploader, file), FALSE, NoPrompt)

\* The user removes a file from the file_uploader widget.
RemoveFile(file) ==
    /\ ui_pc = "idle"
    /\ InSeq(file, pdf_uploader)
    /\ Main("remove", SelectSeq(pdf_uploader, LAMBDA f : f # file), FALSE,
            NoPrompt)

\* The user clicks "Add URL": the run has a url and no other input.
AddUrl ==
    /\ ui_pc = "idle"
    /\ Main("add_url", pdf_uploader, FALSE, NoPrompt)

\* The user clicks "Clear Knowledge Base".
ClickClear ==
    /\ ui_pc = "idle"
    /\ Main("clear", pdf_uploader, TRUE, NoPrompt)

\* The user submits a question in the chat input.
SubmitPrompt(prompt) ==
    /\ ui_pc = "idle"
    /\ Len(messages) + 2 <= MaxMessages
    /\ Main("prompt", pdf_uploader, FALSE, prompt)

\* The run st.rerun() asked for: no widget is triggered in it.
Rerun ==
    /\ ui_pc = "rerun"
    /\ Main("rerun", pdf_uploader, FALSE, NoPrompt)

\* A new browser session (or a restart of the application): a fresh
\* st.session_state from initialize_session_state, empty widgets; the
\* persist directory is what the earlier sessions left.
NewSession ==
    /\ ui_pc = "idle"
    /\ ui_event' = "new_session"
    /\ messages' = << >>
    /\ chain' = None
    /\ uploaded_files' = << >>
    /\ pdf_uploader' = << >>
    /\ UNCHANGED <<ui_pc, persist_directory, split_vars, query_vars,
                   store_vars>>

Init ==
    /\ ParkedSplitVars
    /\ ParkedQueryVars
    /\ ParkedStoreVars
    /\ ParkedStore
    /\ ParkedUiVars

Next ==
    \/ \E file \in Files : AddFile(file)
    \/ \E file \in Files : RemoveFile(file)
    \/ AddUrl
    \/ ClickClear
    \/ \E prompt \in Questions : SubmitPrompt(prompt)
    \/ Rerun
    \/ NewSession

Spec == Init /\ [][Next]_vars

-----------------------------------------------------------------------------
(* Claims about the front end                                              *)

IsPrefix(a, b) == Len(a) <= Len(b) /\ \A i \in 1..Len(a) : a[i] = b[i]

\* The collection holds exactly the chunks of one file and was persisted.
FullyCommitted(dir) ==
    dir.persisted /\ \E file \in Files : dir.items = ChunksOf(file)

\* C2: between script runs the persisted collection is either absent or
\* fully committed; a get_store call whose embedding fails leaves nothing
\* that a later get_store finds existing and opens.
C2_AbsentOrFullyCommitted ==
    ~Exists(persist_directory) \/ FullyCommitted(persist_directory)

C7_HistoryAppendOnly ==
    [][/\ ui_event' \notin {"clear", "new_session"}
            => IsPrefix(messages, messages')
       /\ (/\ ui_event' = "prompt"
           /\ messages' # messages
           /\ messages'[Len(messages')] = AssistantMessage("error"))
            => /\ \E prompt \in Questions :
                     messages' = messages \o <<UserMessage(prompt),
                                               AssistantMessage("error")>>
               /\ chain = RAGChain
               /\ chain' = chain]_vars

\* A failed turn, and after it a turn the same chain answered.
C7_Witness ==
    /\ Len(messages) = 4
    /\ messages[2] = AssistantMessage("error")
    /\ messages[4] = AssistantMessage("answer")
    /\ chain = RAGChain

\* C8: while a failed indexing is unresolved (the directory a failed
\* get_store left is still there, unpersisted) no chain is cached; and a
\* question submitted while no chain is cached gets no assistant message.
C8_FailuresBlockChat ==
    /\ (Exists(persist_directory) /\ ~persist_directory.persisted)
            => chain = None
    /\ (ui_event = "prompt" /\ ui_pc = "idle" /\ chain = None)
            => (messages # << >> /\ messages[Len(messages)].role = "user")

-----------------------------------------------------------------------------
(* Splitter: DocumentSplitter.split_documents on a text with no paragraph, *)
(* line or word separator.  RecursiveCharacterTextSplitter then falls to   *)
(* its last separator "", whose splits are the single characters, and      *)
(* merges them with _merge_splits(splits, separator = ""): one action per  *)
(* iteration of its for loop and of its inner while loop.                  *)

\* len(d) of the i-th split: the splits of separator "" are single characters.
SplitLen(i) == 1

\* len(separator) for the separator "" the splits are merged with.
SeparatorLen == 0

\* The splits taken so far and not yet popped: current_doc.
CurrentCount == sp_idx - sp_first + 1

\* separator_len if len(current_doc) > n else 0
SepIf(n) == IF CurrentCount > n THEN SeparatorLen ELSE 0

\* total + _len + (separator_len if len(current_doc) > 0 else 0) > chunk_size
Overflows(len) == sp_total + len + SepIf(0) > CHUNK_SIZE

\* The lengths of the texts split: multiples of the overlap, and one more.
DocLens == {k * CHUNK_OVERLAP + r : k \in 1..MaxDocUnits, r \in {0, 1}}

\* _join_docs(current_doc, separator): the text from the first split of
\* current_doc to the last one taken; None (nothing appended) when empty.
JoinDocs == IF CurrentCount > 0
            THEN <<[start |-> sp_first - 1, end |-> sp_idx]>>
            ELSE << >>

\* while total > chunk_overlap or (total + _len + sep > chunk_size and total > 0)
PopCondMutOffByOne(len) == sp_total >= CHUNK_OVERLAP \/ (Overflows(len) /\ sp_total > 0)

PopCond(len) == sp_total > CHUNK_OVERLAP \/ (Overflows(len) /\ sp_total > 0)

InitSplitVars ==
    /\ sp_len \in DocLens
    /\ sp_idx = 0
    /\ sp_first = 1
    /\ sp_total = 0
    /\ sp_chunks = << >>
    /\ sp_pc = "loop"

\* current_doc.append(d); total += _len
TakeSplit ==
    /\ sp_idx' = sp_idx + 1
    /\ sp_total' = sp_total + SplitLen(sp_idx + 1)
    /\ sp_pc' = "loop"

\* One iteration of `for d in splits` up to the inner while loop.
MergeNext ==
    /\ sp_pc = "loop"
    /\ sp_idx < sp_len
    /\ IF Overflows(SplitLen(sp_idx + 1)) /\ CurrentCount > 0
       THEN /\ sp_chunks' = sp_chunks \o JoinDocs
            /\ sp_pc' = "pop"
            /\ UNCHANGED <<sp_idx, sp_first, sp_total>>
       ELSE /\ TakeSplit
            /\ UNCHANGED <<sp_first, sp_chunks>>
    /\ UNCHANGED <<sp_len, persist_directory, query_vars, store_vars, ui_vars>>

\* One iteration of the inner while loop, or its exit and the append of d.
MergePop ==
    /\ sp_pc = "pop"
    /\ IF PopCond(SplitLen(sp_idx + 1))
       THEN /\ sp_total' = sp_total - (SplitLen(sp_first) + SepIf(1))
            /\ sp_first' = sp_first + 1
            /\ UNCHANGED <<sp_idx, sp_pc>>
       ELSE /\ TakeSplit
            /\ UNCHANGED sp_first
    /\ UNCHANGED <<sp_len, sp_chunks, persist_directory, query_vars,
                   store_vars, ui_vars>>

\* After the for loop: the last current_doc is joined and appended.
MergeFinish ==
    /\ sp_pc = "loop"
    /\ sp_idx = sp_len
    /\ sp_chunks' = sp_chunks \o JoinDocs
    /\ sp_pc' = "done"
    /\ UNCHANGED <<sp_len, sp_idx, sp_first, sp_total, persist_directory,
                   query_vars, store_vars, ui_vars>>

InitSplit ==
    /\ InitSplitVars
    /\ ParkedStore
    /\ ParkedStoreVars
    /\ ParkedQueryVars
    /\ ParkedUiVars

NextSplit == MergeNext \/ MergePop \/ MergeFinish

SpecSplit == InitSplit /\ [][NextSplit]_vars

-----------------------------------------------------------------------------
(* Claims about the splitter                                               *)

ChunkLen(c) == c.end - c.start

ChunkLens == [i \in 1..Len(sp_chunks) |-> ChunkLen(sp_chunks[i])]

\* C9 (as stated): a text of 3000 characters without separators is split
\* into exactly 3 chunks of lengths 1200, 1200 and 600.
C9_LengthsAsStated ==
    (sp_pc = "done" /\ sp_len = 3000) => ChunkLens = <<1200, 1200, 600>>

\* C9 (amended): with chunk_size 1200 and chunk_overlap 300 a text of 3000
\* characters without separators is split into exactly 3 chunks of lengths
\* 1200, 1200 and 1200; every chunk of such a text is at most chunk_size
\* long and each chunk starts chunk_overlap characters before the end of the
\* chunk before it.
C9_ChunkingArithmetic ==
    /\ \A i \in 1..Len(sp_chunks) : ChunkLen(sp_chunks[i]) <= CHUNK_SIZE
    /\ \A i \in 1..(Len(sp_chunks) - 1) :
          sp_chunks[i].end - sp_chunks[i + 1].start = CHUNK_OVERLAP
    /\ (sp_pc = "done" /\ sp_len = 3000) => ChunkLens = <<1200, 1200, 1200>>

C9_Witness ==
    sp_pc = "done" /\ sp_len = 3000 /\ Len(sp_chunks) = 3

====
